---- MODULE Spec2Model ----
(***************************************************************************)
(* git_helper (src/src/lib.rs): a fluent builder of git command lines.     *)
(*                                                                         *)
(* GitCommand owns the token vector git_cmd, the first-wins flag           *)
(* git_cmd_started and the optional repo_name; GitOptions is the           *)
(* sub-builder that borrows a GitCommand, accumulates single-dash          *)
(* characters and double-dash triples and flushes them on done().          *)
(* Strings are TLA+ strings; Rust's split, replace and join are modelled   *)
(* character by character.                                                 *)
(***************************************************************************)
EXTENDS Naturals, Sequences, FiniteSets, TLC

(* ----------------------------- bounds ---------------------------------- *)

\* calls recorded in one behaviour of Spec (all operations)
MaxCalls == 3
\* calls recorded in one behaviour of SpecFactory (factory methods only)
MaxFactoryCalls == 3
\* calls recorded in one behaviour of SpecOptions (the options sub-chain)
MaxOptionCalls == 5
\* calls recorded in one behaviour of SpecText (text injection)
MaxTextCalls == 2
\* number of parts a captured standard output is assembled from (SpecRepo)
MaxPathParts == 2

(* ------------------------ Option<T> and strings ------------------------- *)

None == [tag |-> "None"]

Some(v) == [tag |-> "Some", val |-> v]

is_some(o) == o.tag = "Some"

\* Option::unwrap_or
unwrap_or(o, default) == IF is_some(o) THEN o.val ELSE default

\* s with its first n characters removed
Drop(s, n) == SubSeq(s, n + 1, Len(s))

\* does pat occur in s at position 1
StartsWith(s, pat) == Len(s) >= Len(pat) /\ SubSeq(s, 1, Len(pat)) = pat

\* str::split(pat) for a non-empty pattern: the pieces between the
\* non-overlapping matches found left to right; always at least one piece
RECURSIVE SplitFrom(_, _, _)
SplitFrom(piece, rest, pat) ==
    IF Len(rest) = 0 THEN <<piece>>
    ELSE IF StartsWith(rest, pat)
         THEN <<piece>> \o SplitFrom("", Drop(rest, Len(pat)), pat)
         ELSE SplitFrom(piece \o SubSeq(rest, 1, 1), Drop(rest, 1), pat)

\* mutant of split: the empty string has no piece
split_nonempty(s, pat) == IF Len(s) = 0 THEN <<>> ELSE SplitFrom("", s, pat)

split(s, pat) == SplitFrom("", s, pat)

\* mutant of replace: only the first match is replaced
replace_first(s, from, to) ==
    IF \E i \in 1..Len(s) : StartsWith(Drop(s, i - 1), from)
    THEN LET i == CHOOSE i \in 1..Len(s) :
                      /\ StartsWith(Drop(s, i - 1), from)
                      /\ \A j \in 1..(i - 1) : ~StartsWith(Drop(s, j - 1), from)
         IN SubSeq(s, 1, i - 1) \o to \o Drop(s, i - 1 + Len(from))
    ELSE s

\* str::replace(from, to) for a non-empty pattern: every non-overlapping
\* match, found left to right, is replaced by to
RECURSIVE replace(_, _, _)
replace(s, from, to) ==
    IF Len(s) = 0 THEN ""
    ELSE IF StartsWith(s, from)
         THEN to \o replace(Drop(s, Len(from)), from, to)
         ELSE SubSeq(s, 1, 1) \o replace(Drop(s, 1), from, to)

\* [String]::join(sep)
RECURSIVE join(_, _)
join(v, sep) ==
    IF Len(v) = 0 THEN ""
    ELSE IF Len(v) = 1 THEN v[1]
    ELSE v[1] \o sep \o join(Tail(v), sep)

Placeholder == "%%repo_name%%"

(* ------------------------ the method tables ----------------------------- *)

\* add_git_command!($a, $b): method name -> literal, first-wins arm
GitCommands ==
    [status |-> "status", reset |-> "reset", add |-> "add",
     rev_parse |-> "rev-parse", init |-> "init", log |-> "log",
     checkout |-> "checkout", branch |-> "branch", clone |-> "clone",
     commit |-> "commit", config |-> "config", submodule |-> "submodule",
     fetch |-> "fetch", merge |-> "merge", mv |-> "mv", pull |-> "pull",
     pull_origin |-> "pull_origin", push_origin |-> "push_origin",
     rebase |-> "rebase", remote |-> "remote", rm |-> "rm",
     restore |-> "restore", show |-> "show", switch |-> "switch",
     tag |-> "tag", worktree |-> "worktree"]

MainCommands == DOMAIN GitCommands

\* add_git_command!($a, $b, false): method name -> literal, always-append arm
GitModifiers == [master |-> "master", upstream |-> "upstream"]

Modifiers == DOMAIN GitModifiers

\* add_extra_git_text!($a, GitCommand::sanitize)
TextMethods == {"branch_name", "url", "text"}

(* ------------------- the process-execution collaborator ----------------- *)

\* what Command::new("git").args(..).output() can do: fail to spawn, or run
\* to an exit status with captured standard output that is valid UTF-8 or not
SpawnFailure == [spawned |-> FALSE, status |-> 0, utf8 |-> FALSE, stdout |-> ""]

Exited(status, text) ==
    [spawned |-> TRUE, status |-> status, utf8 |-> TRUE, stdout |-> text]

BadUtf8 == [spawned |-> TRUE, status |-> 0, utf8 |-> FALSE, stdout |-> ""]

\* a call either returns a value or panics (unwinds the calling flow)
Ok(v) == [tag |-> "Ok", val |-> v]

Panic(msg) == [tag |-> "Panic", val |-> msg]

panicked(r) == r.tag = "Panic"

(* ------------------------------ GitOptions ------------------------------ *)

\* GitOptions::new: nothing accumulated yet (the parent is the one builder)
GitOptions_new == [single_dash |-> "", double_dash |-> <<>>]

\* GitOptions::single
single(o, c) == [o EXCEPT !.single_dash = @ \o c]

\* GitOptions::double
double(o, name, value, equals) ==
    [o EXCEPT !.double_dash =
        Append(@, <<name, unwrap_or(value, ""), unwrap_or(equals, FALSE)>>)]

\* mutant of option_tokens: the value always carries "="
option_tokens_always_equals(t) ==
    <<"--" \o t[1]>> \o (IF Len(t[2]) # 0 THEN <<"=" \o t[2]>> ELSE <<>>)

\* the tokens of one (k, v, equals) triple, the body of the loop in __options
option_tokens(t) ==
    <<"--" \o t[1]>>
    \o (IF Len(t[2]) # 0
        THEN <<(IF t[3] THEN "=" ELSE "") \o t[2]>>
        ELSE <<>>)

RECURSIVE double_tokens(_)
double_tokens(dd) ==
    IF Len(dd) = 0 THEN <<>>
    ELSE option_tokens(Head(dd)) \o double_tokens(Tail(dd))

\* mutant of __options: the single-dash token is emitted last
__options_single_last(o) ==
    double_tokens(o.double_dash)
    \o (IF Len(o.single_dash) # 0 THEN <<"-" \o o.single_dash>> ELSE <<>>)

\* GitOptions::__options
__options(o) ==
    (IF Len(o.single_dash) # 0 THEN <<"-" \o o.single_dash>> ELSE <<>>)
    \o double_tokens(o.double_dash)

\* mutant of done: the option tokens are put in front of the parent's tokens
done_prepend(g, o) == [g EXCEPT !.git_cmd = __options(o) \o @]

\* mutant of done: a flush marks the main command as set
done_started(g, o) ==
    [g EXCEPT !.git_cmd = @ \o __options(o), !.git_cmd_started = TRUE]

\* mutant of done: tokens already at the end of the parent are not appended again
done_once(g, o) ==
    LET t == __options(o)
        n == Len(g.git_cmd)
    IN IF n >= Len(t) /\ SubSeq(g.git_cmd, n - Len(t) + 1, n) = t
       THEN g
       ELSE [g EXCEPT !.git_cmd = @ \o t]

\* GitOptions::done: the parent after the flush
done(g, o) == [g EXCEPT !.git_cmd = @ \o __options(o)]

(* ------------------------------ GitCommand ------------------------------ *)

\* GitCommand::_reset: private and called from nowhere, create included
_reset(g) == [g EXCEPT !.git_cmd = <<"git">>, !.git_cmd_started = FALSE]

\* mutant of GitCommand_new: the new builder is passed through _reset
GitCommand_new_reset(find_root) ==
    _reset([repo_name |-> None, find_root |-> find_root,
            git_cmd_started |-> FALSE, git_cmd |-> <<>>])

\* the struct literal of GitCommand::create
GitCommand_new(find_root) ==
    [repo_name |-> None, find_root |-> find_root,
     git_cmd_started |-> FALSE, git_cmd |-> <<>>]

\* mutant of add_git_command: the literal is pushed without being split
add_git_command_unsplit(g, b) ==
    IF ~g.git_cmd_started
    THEN [g EXCEPT !.git_cmd_started = TRUE, !.git_cmd = Append(@, b)]
    ELSE g

\* mutant of add_git_command: git_cmd_started is set but never tested
add_git_command_unguarded(g, b) ==
    [g EXCEPT !.git_cmd_started = TRUE, !.git_cmd = @ \o split(b, "_")]

\* add_git_command!($a, $b): first main command wins
add_git_command(g, b) ==
    IF ~g.git_cmd_started
    THEN [g EXCEPT !.git_cmd_started = TRUE, !.git_cmd = @ \o split(b, "_")]
    ELSE g

\* mutant of add_git_command_false: the modifier counts as the main command
add_git_command_false_started(g, b) ==
    [g EXCEPT !.git_cmd_started = TRUE, !.git_cmd = @ \o split(b, "_")]

\* add_git_command!($a, $b, false): appended on every call
add_git_command_false(g, b) == [g EXCEPT !.git_cmd = @ \o split(b, "_")]

\* GitCommand::sanitize
sanitize(g, a) ==
    IF is_some(g.repo_name) THEN replace(a, Placeholder, g.repo_name.val) ELSE a

\* mutant of add_extra_git_text: the text takes the place of the last token
add_extra_git_text_overwrite(g, arg) ==
    [g EXCEPT !.git_cmd =
        IF Len(@) = 0 THEN <<sanitize(g, arg)>>
        ELSE [@ EXCEPT ![Len(@)] = sanitize(g, arg)]]

\* add_extra_git_text!($a, $func)
add_extra_git_text(g, arg) == [g EXCEPT !.git_cmd = Append(@, sanitize(g, arg))]

\* mutant of command_list: the first token is left out
command_list_rest(g) == IF Len(g.git_cmd) = 0 THEN <<>> ELSE Tail(g.git_cmd)

\* GitCommand::command_list
command_list(g) == g.git_cmd

\* mutant of command: no space behind the program name
command_unspaced(g) == "git" \o join(g.git_cmd, " ")

\* GitCommand::command
command(g) == "git " \o join(g.git_cmd, " ")

\* {:?} of one argument: quoted, with quote, backslash and newline escaped
RECURSIVE escape_debug(_)
escape_debug(s) ==
    IF Len(s) = 0 THEN ""
    ELSE LET c == SubSeq(s, 1, 1)
         IN (IF c = "\"" THEN "\\\""
             ELSE IF c = "\\" THEN "\\\\"
             ELSE IF c = "\n" THEN "\\n"
             ELSE c) \o escape_debug(Drop(s, 1))

\* {:?} of CommandArgs: the arguments as a list of quoted strings
debug_args(v) ==
    "[" \o join([i \in 1..Len(v) |-> "\"" \o escape_debug(v[i]) \o "\""], ", ") \o "]"

\* mutant of run: the debug flag is not consulted before spawning
run_spawning(g, debug, outcome) ==
    LET spawn == [program |-> "git", args |-> command_list(g)]
    IN IF ~outcome.spawned
       THEN [printed |-> <<command(g)>>, invoked |-> <<spawn>>,
             ret |-> Panic("Failed to run git command")]
       ELSE [printed |-> <<command(g)>>, invoked |-> <<spawn>>, ret |-> Ok(None)]

\* mutant of run: a failure becomes the empty result instead of a panic
run_recovering(g, debug, outcome) ==
    IF debug
    THEN [printed |-> <<command(g)>>, invoked |-> <<>>, ret |-> Ok(None)]
    ELSE LET spawn == [program |-> "git", args |-> command_list(g)]
         IN IF ~outcome.spawned \/ ~outcome.utf8
            THEN [printed |-> <<>>, invoked |-> <<spawn>>, ret |-> Ok(None)]
            ELSE [printed |-> <<debug_args(command_list(g))>>,
                  invoked |-> <<spawn>>, ret |-> Ok(Some(outcome.stdout))]

\* GitCommand::run with the collaborator's outcome: the lines printed, the
\* processes spawned and what the call returns (or the panic that ends it)
run(g, debug, outcome) ==
    IF debug
    THEN [printed |-> <<command(g)>>, invoked |-> <<>>, ret |-> Ok(None)]
    ELSE LET spawn == [program |-> "git", args |-> command_list(g)]
         IN IF ~outcome.spawned
            THEN [printed |-> <<>>, invoked |-> <<spawn>>,
                  ret |-> Panic("Failed to run git command")]
            ELSE IF ~outcome.utf8
            THEN [printed |-> <<debug_args(command_list(g))>>,
                  invoked |-> <<spawn>>, ret |-> Panic("FromUtf8Error")]
            ELSE [printed |-> <<debug_args(command_list(g))>>,
                  invoked |-> <<spawn>>, ret |-> Ok(Some(outcome.stdout))]

(* --------------------------- the derived queries ------------------------ *)

\* the builder find_repo_path runs:
\* create(false).rev_parse().options().double("show-toplevel", None, None).done()
show_toplevel ==
    LET g == add_git_command(GitCommand_new(FALSE), GitCommands.rev_parse)
        o == double(GitOptions_new, "show-toplevel", None, None)
    IN done(g, o)

\* find_repo_path
find_repo_path(outcome) ==
    LET r == run(show_toplevel, FALSE, outcome).ret
    IN IF panicked(r) THEN r ELSE Ok(unwrap_or(r.val, ""))

\* find_repo_name: the last piece of the path split on "/"
find_repo_name(outcome) ==
    LET unparsed == find_repo_path(outcome)
    IN IF panicked(unparsed) THEN unparsed
       ELSE LET res == split(unparsed.val, "/")
            IN IF Len(res) = 0 THEN Panic("index out of bounds")
               ELSE Ok(res[Len(res)])

\* mutant of create: the name is discovered whatever find_root says
create_always_resolves(find_root, outcome) ==
    LET git == GitCommand_new(find_root)
        name == find_repo_name(outcome)
    IN IF panicked(name) THEN name
       ELSE Ok([git EXCEPT !.repo_name = Some(name.val)])

\* GitCommand::create
create(find_root, outcome) ==
    LET git == GitCommand_new(find_root)
    IN IF git.find_root
       THEN LET name == find_repo_name(outcome)
            IN IF panicked(name) THEN name
               ELSE Ok([git EXCEPT !.repo_name = Some(name.val)])
       ELSE Ok(git)

(* ------------------------------ the inputs ------------------------------ *)

\* what rev-parse --show-toplevel prints during create(true): a path without
\* and with git's trailing newline, and nothing outside a repository
DiscoveryOutcomes ==
    {Exited(0, "/home/user/projects/myrepo"), Exited(0, "/srv/myrepo\n"),
     Exited(128, "")}

\* main-command methods exercised next to the other operations in Spec
ChainMain == {"status", "rev_parse", "pull_origin"}

ChainText == {"hello_%%repo_name%%", "main"}

TextArgs ==
    {"hello_%%repo_name%%", "%%repo_name%%/%%repo_name%%", "%%%repo_name%%%",
     "%%repo_name%", "main", ""}

SingleChars == {"a", "b"}

DoubleArgs ==
    {<<"show-toplevel", None, None>>, <<"depth", Some("1"), Some(TRUE)>>,
     <<"depth", Some("1"), Some(FALSE)>>, <<"depth", Some("1"), None>>,
     <<"depth", None, Some(TRUE)>>, <<"depth", Some(""), Some(TRUE)>>}

RunOutcomes == {SpawnFailure, BadUtf8, Exited(0, "ok\n"), Exited(1, "diff\n")}

PathParts == {"/home/user/projects/", "/", "myrepo", "\n"}

\* every concatenation of at most n parts
RECURSIVE Paths(_)
Paths(n) ==
    IF n = 0 THEN {""}
    ELSE Paths(n - 1) \cup {p \o q : p \in Paths(n - 1), q \in PathParts}

QueryOutcomes ==
    {SpawnFailure, BadUtf8}
    \cup {Exited(st, p) : st \in {0, 1, 128}, p \in Paths(MaxPathParts)}

(* ------------------------------- the state ------------------------------ *)

VARIABLES
    git,    \* the GitCommand: repo_name, find_root, git_cmd, git_cmd_started
    opt,    \* the GitOptions borrowing git, None when there is none
    pc,     \* what the call chain holds: "cmd" the GitCommand, "opts" the
            \* GitOptions, "chain" the &mut GitCommand that done() returned
    calls,  \* the methods called on the builder so far, in order
    out,    \* what the last run() did, None before the first
    query   \* what the last find_repo_path / find_repo_name call did

vars == <<git, opt, pc, calls, out, query>>

Call(fn, args) == [fn |-> fn, args |-> args]

\* a panic unwinds the calling flow: nothing runs after it
Live ==
    /\ is_some(out) => ~panicked(out.val.ret)
    /\ is_some(query) => ~panicked(query.val.ret)

\* the chain holds a GitCommand (owned, or returned by done())
OnCommand == Live /\ pc \in {"cmd", "chain"}

\* the chain can reach the GitOptions
OnOptions == Live /\ is_some(opt)

\* the builder as create() returns it; a discovery that panics returns none
Init ==
    /\ \E find_root \in BOOLEAN, outcome \in DiscoveryOutcomes :
          /\ ~panicked(create(find_root, outcome))
          /\ git = create(find_root, outcome).val
    /\ opt = None
    /\ pc = "cmd"
    /\ calls = <<>>
    /\ out = None
    /\ query = None

\* status(), reset(), ... worktree()
MainCommand(m) ==
    /\ OnCommand
    /\ git' = add_git_command(git, GitCommands[m])
    /\ calls' = Append(calls, Call(m, <<>>))
    /\ UNCHANGED <<opt, pc, out, query>>

\* master(), upstream()
AlwaysAppend(m) ==
    /\ OnCommand
    /\ git' = add_git_command_false(git, GitModifiers[m])
    /\ calls' = Append(calls, Call(m, <<>>))
    /\ UNCHANGED <<opt, pc, out, query>>

\* branch_name(arg), url(arg), text(arg)
Text(f, arg) ==
    /\ OnCommand
    /\ git' = add_extra_git_text(git, arg)
    /\ calls' = Append(calls, Call(f, <<arg>>))
    /\ UNCHANGED <<opt, pc, out, query>>

\* options(): a new GitOptions borrows the builder
Options ==
    /\ OnCommand
    /\ opt' = Some(GitOptions_new)
    /\ pc' = "opts"
    /\ calls' = Append(calls, Call("options", <<>>))
    /\ UNCHANGED <<git, out, query>>

Single(c) ==
    /\ OnOptions
    /\ opt' = Some(single(opt.val, c))
    /\ pc' = "opts"
    /\ calls' = Append(calls, Call("single", <<c>>))
    /\ UNCHANGED <<git, out, query>>

Double(a) ==
    /\ OnOptions
    /\ opt' = Some(double(opt.val, a[1], a[2], a[3]))
    /\ pc' = "opts"
    /\ calls' = Append(calls, Call("double", a))
    /\ UNCHANGED <<git, out, query>>

\* done(): the flush; the GitOptions keeps what it accumulated
Done ==
    /\ OnOptions
    /\ git' = done(git, opt.val)
    /\ pc' = "chain"
    /\ calls' = Append(calls, Call("done", <<>>))
    /\ UNCHANGED <<opt, out, query>>

\* the GitOptions goes out of scope, flushed or not
DropOptions ==
    /\ OnOptions
    /\ opt' = None
    /\ pc' = "cmd"
    /\ UNCHANGED <<git, calls, out, query>>

\* run(debug) against what the collaborator does; out keeps, next to what
\* run did, the outcome of the process it spawned (None when it spawned none)
Run(debug, outcome) ==
    /\ OnCommand
    /\ out' = Some(run(git, debug, outcome)
                    @@ [collaborator |-> IF debug THEN None ELSE Some(outcome)])
    /\ calls' = Append(calls, Call("run", <<debug>>))
    /\ UNCHANGED <<git, opt, pc, query>>

\* the free function find_repo_path()
FindRepoPath(outcome) ==
    /\ Live
    /\ query' = Some([fn |-> "find_repo_path", outcome |-> outcome,
                      ret |-> find_repo_path(outcome)])
    /\ UNCHANGED <<git, opt, pc, calls, out>>

\* the free function find_repo_name()
FindRepoName(outcome) ==
    /\ Live
    /\ query' = Some([fn |-> "find_repo_name", outcome |-> outcome,
                      ret |-> find_repo_name(outcome)])
    /\ UNCHANGED <<git, opt, pc, calls, out>>

(* --------------------------- the specifications ------------------------- *)

\* every operation of the builder, at most MaxCalls calls
Next ==
    \/ \E m \in ChainMain : Len(calls) < MaxCalls /\ MainCommand(m)
    \/ \E m \in Modifiers : Len(calls) < MaxCalls /\ AlwaysAppend(m)
    \/ \E f \in TextMethods, a \in ChainText : Len(calls) < MaxCalls /\ Text(f, a)
    \/ Len(calls) < MaxCalls /\ Options
    \/ \E c \in SingleChars : Len(calls) < MaxCalls /\ Single(c)
    \/ \E a \in DoubleArgs : Len(calls) < MaxCalls /\ Double(a)
    \/ Len(calls) < MaxCalls /\ Done
    \/ DropOptions
    \/ \E d \in BOOLEAN, o \in RunOutcomes : Len(calls) < MaxCalls /\ Run(d, o)

Spec == Init /\ [][Next]_vars

\* the factory methods alone: all main commands and both modifiers
NextFactory ==
    \/ \E m \in MainCommands : Len(calls) < MaxFactoryCalls /\ MainCommand(m)
    \/ \E m \in Modifiers : Len(calls) < MaxFactoryCalls /\ AlwaysAppend(m)

SpecFactory == Init /\ [][NextFactory]_vars

\* the options sub-chain after rev_parse
NextOptions ==
    \/ Len(calls) < MaxOptionCalls /\ MainCommand("rev_parse")
    \/ Len(calls) < MaxOptionCalls /\ Options
    \/ \E c \in SingleChars : Len(calls) < MaxOptionCalls /\ Single(c)
    \/ \E a \in DoubleArgs : Len(calls) < MaxOptionCalls /\ Double(a)
    \/ Len(calls) < MaxOptionCalls /\ Done
    \/ DropOptions

SpecOptions == Init /\ [][NextOptions]_vars

\* text injection around a main command
NextText ==
    \/ \E f \in TextMethods, a \in TextArgs : Len(calls) < MaxTextCalls /\ Text(f, a)
    \/ Len(calls) < MaxTextCalls /\ MainCommand("checkout")

SpecText == Init /\ [][NextText]_vars

\* the derived queries
NextRepo ==
    \/ \E o \in QueryOutcomes : FindRepoPath(o)
    \/ \E o \in QueryOutcomes : FindRepoName(o)

\* the queries are free functions: the only builder is the one they create
InitRepo ==
    /\ git = create(FALSE, SpawnFailure).val
    /\ opt = None
    /\ pc = "cmd"
    /\ calls = <<>>
    /\ out = None
    /\ query = None

SpecRepo == InitRepo /\ [][NextRepo]_vars

(* ------------------- reading the log of calls --------------------------- *)

\* the step is a call of method fn
Called(fn) == Len(calls') = Len(calls) + 1 /\ calls'[Len(calls')].fn = fn

\* the argument tuple of the call the step makes
CalledArgs == calls'[Len(calls')].args

\* some main-command method is among the first n calls of log
MainCalledWithin(log, n) == \E j \in 1..n : log[j].fn \in MainCommands

\* the tokens the specification fixes for a factory method
FixedTokens(fn) ==
    IF fn = "pull_origin" THEN <<"pull", "origin">>
    ELSE IF fn = "push_origin" THEN <<"push", "origin">>
    ELSE IF fn = "rev_parse" THEN <<"rev-parse">>
    ELSE <<fn>>

\* the fixed tokens of the factory calls of log in call order, a main command
\* counting only when no main command was called before it
RECURSIVE FactoryTokens(_, _)
FactoryTokens(log, n) ==
    IF n = 0 THEN <<>>
    ELSE FactoryTokens(log, n - 1)
         \o (IF log[n].fn \in Modifiers THEN FixedTokens(log[n].fn)
             ELSE IF log[n].fn \in MainCommands /\ ~MainCalledWithin(log, n - 1)
                  THEN FixedTokens(log[n].fn)
             ELSE <<>>)

\* how many elements of v equal x
Count(v, x) == Cardinality({i \in 1..Len(v) : v[i] = x})

CountCalls(fn) == Cardinality({i \in 1..Len(calls) : calls[i].fn = fn})

\* the index of the last options() call among the first n calls, 0 if none
RECURSIVE LastOptions(_, _)
LastOptions(log, n) ==
    IF n = 0 THEN 0
    ELSE IF log[n].fn = "options" THEN n
    ELSE LastOptions(log, n - 1)

\* the characters given to single() in calls from..n of log, in call order
RECURSIVE LogSingles(_, _, _)
LogSingles(log, from, n) ==
    IF n < from THEN ""
    ELSE LogSingles(log, from, n - 1)
         \o (IF log[n].fn = "single" THEN log[n].args[1] ELSE "")

\* the argument tuples given to double() in calls from..n of log, in call order
RECURSIVE LogDoubles(_, _, _)
LogDoubles(log, from, n) ==
    IF n < from THEN <<>>
    ELSE LogDoubles(log, from, n - 1)
         \o (IF log[n].fn = "double" THEN <<log[n].args>> ELSE <<>>)

\* what single() and double() were given since the GitOptions was created
SinglesGiven == LogSingles(calls, LastOptions(calls, Len(calls)) + 1, Len(calls))

DoublesGiven == LogDoubles(calls, LastOptions(calls, Len(calls)) + 1, Len(calls))

\* the tokens a step adds behind those already present
Appended == SubSeq(git'.git_cmd, Len(git.git_cmd) + 1, Len(git'.git_cmd))

KeepsTokens ==
    /\ Len(git'.git_cmd) >= Len(git.git_cmd)
    /\ SubSeq(git'.git_cmd, 1, Len(git.git_cmd)) = git.git_cmd

\* a single-dash token: "-" and not "--"
IsShort(t) == StartsWith(t, "-") /\ ~StartsWith(t, "--")

\* the tokens the specification gives for double(name, value, equals) calls
RECURSIVE LongTokens(_)
LongTokens(given) ==
    IF Len(given) = 0 THEN <<>>
    ELSE LET a == given[1]
         IN <<"--" \o a[1]>>
            \o (IF is_some(a[2]) /\ a[2].val # ""
                THEN <<(IF is_some(a[3]) /\ a[3].val THEN "=" ELSE "") \o a[2].val>>
                ELSE <<>>)
            \o LongTokens(Tail(given))

\* each token preceded by one space
RECURSIVE Spaced(_)
Spaced(v) ==
    IF Len(v) = 0 THEN ""
    ELSE Spaced(SubSeq(v, 1, Len(v) - 1)) \o " " \o v[Len(v)]

LastCall == calls[Len(calls)]

\* the tokens the specification gives for everything single() and double()
\* were given since the GitOptions was created
SerializedGiven ==
    (IF SinglesGiven = "" THEN <<>> ELSE <<"-" \o SinglesGiven>>)
    \o LongTokens(DoublesGiven)

\* the state create(false).rev_parse().options()
\*     .double("show-toplevel", None, None).done() ends in
EndToEnd ==
    /\ ~git.find_root
    /\ Len(calls) = 4
    /\ calls[1].fn = "rev_parse" /\ calls[2].fn = "options"
    /\ calls[3].fn = "double" /\ calls[3].args[1] = "show-toplevel"
    /\ calls[3].args[2] = None /\ calls[3].args[3] = None
    /\ calls[4].fn = "done"

(* -------------------------------- claims -------------------------------- *)

\* C1 as stated: after any sequence of factory-method calls the token list is
\* "git" followed by the called methods' fixed tokens in call order, main
\* commands after the first contributing nothing.
C1_TokenOrderAfterGit ==
    git.git_cmd = <<"git">> \o FactoryTokens(calls, Len(calls))

\* C1 amended: after any sequence of factory-method calls the token list is
\* exactly the called methods' fixed tokens in call order (two tokens for
\* pull_origin and push_origin), main commands after the first contributing
\* nothing; the list holds no program name and is empty on a fresh builder.
C1_TokenOrder == git.git_cmd = FactoryTokens(calls, Len(calls))

C1_Witness ==
    /\ Len(calls) = 3
    /\ calls[1].fn = "push_origin" /\ calls[2].fn = "status"
    /\ calls[3].fn = "upstream"
    /\ git.git_cmd = <<"push", "origin", "upstream">>

\* C2: only the first main-command call appends its tokens; a later
\* main-command call, the same method or another, with any calls in between,
\* leaves the token list as it was.
C2_FirstMainWins ==
    [][\A m \in MainCommands :
          Called(m) =>
              git'.git_cmd =
                  IF MainCalledWithin(calls, Len(calls)) THEN git.git_cmd
                  ELSE git.git_cmd \o FixedTokens(m)]_vars

C2_Witness ==
    /\ Len(calls) = 3
    /\ calls[1].fn = "pull_origin" /\ calls[2].fn = "text"
    /\ calls[3].fn = "status"
    /\ git.git_cmd = <<"pull", "origin", "main">>

\* C3: master and upstream append their token on every call, before or after
\* a main command, so the token occurs as often as the method was called, and
\* they leave git_cmd_started alone: a first main command still appends.
C3_AlwaysAppend ==
    /\ [](\A m \in Modifiers : Count(git.git_cmd, m) = CountCalls(m))
    /\ [][\A m \in Modifiers :
             Called(m) =>
                 /\ git'.git_cmd = Append(git.git_cmd, m)
                 /\ git'.git_cmd_started = git.git_cmd_started]_vars
    /\ [][\A m \in MainCommands :
             Called(m) /\ ~MainCalledWithin(calls, Len(calls)) =>
                 git'.git_cmd = git.git_cmd \o FixedTokens(m)]_vars

C3_Witness ==
    /\ Len(calls) = 3
    /\ calls[1].fn = "master" /\ calls[2].fn = "master"
    /\ calls[3].fn = "commit"
    /\ git.git_cmd = <<"master", "master", "commit">>

\* C4: each done() emits the characters given to single() since options(), in
\* the order given and with duplicates, as one token "-" + characters placed
\* before every other token of the flush, however single() and double() were
\* interleaved; with no single() call the flush holds no single-dash token.
C4_SingleDashToken ==
    [][Called("done") =>
          /\ KeepsTokens
          /\ IF SinglesGiven = ""
             THEN \A i \in 1..Len(Appended) : ~IsShort(Appended[i])
             ELSE /\ Len(Appended) >= 1
                  /\ Appended[1] = "-" \o SinglesGiven
                  /\ \A i \in 2..Len(Appended) : ~IsShort(Appended[i])]_vars

C4_Witness ==
    /\ Len(calls) = 5
    /\ calls[1].fn = "options"
    /\ calls[2].fn = "single" /\ calls[2].args[1] = "b"
    /\ calls[3].fn = "double"
    /\ calls[4].fn = "single" /\ calls[4].args[1] = "b"
    /\ calls[5].fn = "done"
    /\ Len(git.git_cmd) >= 2
    /\ git.git_cmd[1] = "-bb" /\ StartsWith(git.git_cmd[2], "--")

\* C5: each done() emits, behind the single-dash token if any, for every
\* double(name, value, equals) call in call order the token "--" + name and
\* then, only when a non-empty value was given, "=" + value if equals is
\* true and the value alone otherwise.
C5_LongOptionTokens ==
    [][Called("done") =>
          /\ KeepsTokens
          /\ SubSeq(Appended, (IF SinglesGiven = "" THEN 1 ELSE 2), Len(Appended))
                 = LongTokens(DoublesGiven)]_vars

C5_Witness ==
    /\ Len(calls) = 5
    /\ calls[1].fn = "options"
    /\ calls[2].fn = "double" /\ calls[2].args[3] = Some(TRUE)
    /\ calls[3].fn = "double" /\ calls[3].args[2] = Some("")
    /\ calls[4].fn = "double" /\ calls[4].args[3] = None
    /\ calls[4].args[2] = Some("1")
    /\ calls[5].fn = "done"
    /\ git.git_cmd = <<"--depth", "=1", "--depth", "--depth", "1">>

\* C6 as stated: the command string is the token list joined by single
\* spaces, begins with "git" and has no leading or trailing space; the
\* end-to-end chain leaves the tokens "git", "rev-parse", "--show-toplevel"
\* and the string "git rev-parse --show-toplevel".
C6_CommandIsJoinedTokens ==
    /\ command(git) = join(git.git_cmd, " ")
    /\ StartsWith(command(git), "git")
    /\ SubSeq(command(git), Len(command(git)), Len(command(git))) # " "
    /\ EndToEnd =>
           /\ git.git_cmd = <<"git", "rev-parse", "--show-toplevel">>
           /\ command(git) = "git rev-parse --show-toplevel"

\* C6 amended: the command string is "git" followed by every token, each
\* preceded by exactly one space, and "git " (with a trailing space) when the
\* token list is empty; the token list holds no "git": the end-to-end chain
\* leaves the tokens "rev-parse", "--show-toplevel" and the string
\* "git rev-parse --show-toplevel".
C6_CommandString ==
    /\ command(git) =
           IF Len(git.git_cmd) = 0 THEN "git " ELSE "git" \o Spaced(git.git_cmd)
    /\ EndToEnd =>
           /\ git.git_cmd = <<"rev-parse", "--show-toplevel">>
           /\ command(git) = "git rev-parse --show-toplevel"

C6_Witness == EndToEnd /\ command(git) = "git rev-parse --show-toplevel"

\* C7 as stated: run(false) spawns "git" with the token list without its
\* leading "git" token as arguments.
C7_ArgsAreTokensAfterGit ==
    (Len(calls) > 0 /\ LastCall.fn = "run" /\ ~LastCall.args[1]) =>
        /\ Len(out.val.invoked) = 1
        /\ out.val.invoked[1].program = "git"
        /\ <<"git">> \o out.val.invoked[1].args = git.git_cmd

\* C7 amended: run(false) spawns the program "git" once with the entire token
\* list, first token included, as arguments in order; the token list holds no
\* leading "git" to leave out and no token is dropped.
C7_ArgsAreAllTokens ==
    (Len(calls) > 0 /\ LastCall.fn = "run" /\ ~LastCall.args[1]) =>
        out.val.invoked = <<[program |-> "git", args |-> git.git_cmd]>>

C7_Witness ==
    /\ Len(calls) = 3
    /\ calls[1].fn = "status" /\ calls[2].fn = "url"
    /\ LastCall.fn = "run" /\ ~LastCall.args[1]
    /\ out.val.invoked[1].args = <<"status", "main">>

\* C8: a text-injection call appends exactly one token: with a repo_name,
\* the argument with every occurrence of the placeholder replaced by it (the
\* pieces around the placeholder joined by repo_name); on a builder created
\* with find_root = false, the argument unchanged.
C8_TextToken ==
    [][\A f \in TextMethods :
          Called(f) =>
              LET a == CalledArgs[1]
              IN /\ git'.git_cmd =
                        Append(git.git_cmd,
                               IF is_some(git.repo_name)
                               THEN join(split(a, Placeholder), git.repo_name.val)
                               ELSE a)
                 /\ ~git.find_root => git'.git_cmd = Append(git.git_cmd, a)
                 /\ (a = "hello_%%repo_name%%" /\ git.repo_name = Some("myrepo"))
                        => git'.git_cmd = Append(git.git_cmd, "hello_myrepo")]_vars

C8_Witness ==
    /\ Len(calls) = 2
    /\ calls[1].fn = "text" /\ calls[1].args[1] = "hello_%%repo_name%%"
    /\ calls[2].fn = "url" /\ calls[2].args[1] = "%%repo_name%%/%%repo_name%%"
    /\ git.repo_name = Some("myrepo")
    /\ git.git_cmd = <<"hello_myrepo", "myrepo/myrepo">>

\* C9: on a builder created with find_root = true whose discovery found no
\* name (the empty string), every text-injection call appends its argument
\* unchanged, placeholder included.
C9_NoSubstitutionWithoutName ==
    [][\A f \in TextMethods :
          (Called(f) /\ git.find_root /\ unwrap_or(git.repo_name, "") = "") =>
              git'.git_cmd = Append(git.git_cmd, CalledArgs[1])]_vars

\* the last non-empty piece of s between "/" characters, "" if there is none
RECURSIVE LastNonEmptySegment(_, _)
LastNonEmptySegment(s, current) ==
    IF Len(s) = 0 THEN current
    ELSE LET c == SubSeq(s, Len(s), Len(s))
             front == SubSeq(s, 1, Len(s) - 1)
         IN IF c = "/"
            THEN (IF current # "" THEN current ELSE LastNonEmptySegment(front, ""))
            ELSE LastNonEmptySegment(front, c \o current)

\* C10: for every path find_repo_path returns, find_repo_name returns the last
\* non-empty piece of it between "/" characters, also for a path ending in "/".
C10_LastNonEmptySegment ==
    (is_some(query) /\ query.val.fn = "find_repo_name" /\ ~panicked(query.val.ret)) =>
        query.val.ret.val =
            LastNonEmptySegment(find_repo_path(query.val.outcome).val, "")

\* C11: run(true) returns None, spawns no process and prints exactly the
\* command string, whatever the builder holds and whatever a process would
\* have done: it cannot fail.
C11_DebugRunOnlyPrints ==
    (Len(calls) > 0 /\ LastCall.fn = "run" /\ LastCall.args[1]) =>
        /\ out.val.ret = Ok(None)
        /\ out.val.invoked = <<>>
        /\ out.val.collaborator = None
        /\ out.val.printed =
               <<IF Len(git.git_cmd) = 0 THEN "git "
                 ELSE "git" \o Spaced(git.git_cmd)>>

C11_Witness ==
    /\ Len(calls) = 3
    /\ calls[1].fn = "pull_origin" /\ calls[2].fn = "master"
    /\ LastCall.fn = "run" /\ LastCall.args[1]
    /\ out.val.printed = <<"git pull origin master">>
    /\ out.val.ret = Ok(None)

\* C12: when the rev-parse run captures an empty standard output (as outside
\* a repository), find_repo_path and find_repo_name both return the empty
\* string; whatever text the run captures, find_repo_name returns and does
\* not index out of range.
C12_EmptyOutputGivesEmptyString ==
    is_some(query) =>
        LET o == query.val.outcome
        IN /\ (o.spawned /\ o.utf8 /\ o.stdout = "") => query.val.ret = Ok("")
           /\ (o.spawned /\ o.utf8) => ~panicked(query.val.ret)

C12_Witness ==
    /\ is_some(query)
    /\ query.val.fn = "find_repo_name"
    /\ query.val.outcome = Exited(128, "")
    /\ query.val.ret = Ok("")

\* C13: run(false) panics, returning neither Some nor None, when the process
\* cannot be spawned or its output is not UTF-8, and nothing runs after the
\* panic; a process that ran, whatever its exit status, makes it return
\* Some(captured output).
C13_RunFailuresAbort ==
    /\ []((Len(calls) > 0 /\ LastCall.fn = "run" /\ ~LastCall.args[1]) =>
            LET o == out.val.collaborator.val
            IN IF ~o.spawned \/ ~o.utf8
               THEN panicked(out.val.ret)
               ELSE out.val.ret = Ok(Some(o.stdout)))
    /\ [][~(is_some(out) /\ panicked(out.val.ret))]_vars

C13_Witness ==
    /\ Len(calls) = 2
    /\ calls[1].fn = "status"
    /\ LastCall.fn = "run" /\ ~LastCall.args[1]
    /\ out.val.collaborator = Some(Exited(1, "diff\n"))
    /\ out.val.ret = Ok(Some("diff\n"))

\* C14 as stated: in every state after create the first element of the token
\* list is "git".
C14_FirstTokenIsGit == Len(git.git_cmd) >= 1 /\ git.git_cmd[1] = "git"

\* C14 amended: after create, for both find_root values, the token list is
\* empty; its first element, once a factory method has been called first, is
\* that method's first token; "git" is never stored in the list by create and
\* appears as the prefix "git " of the command string.
C14_NoProgramToken ==
    /\ Len(calls) = 0 => git.git_cmd = <<>>
    /\ (Len(calls) > 0 /\ calls[1].fn \in MainCommands \cup Modifiers) =>
           git.git_cmd[1] = FixedTokens(calls[1].fn)[1]
    /\ StartsWith(command(git), "git ")
    /\ Len(command(git)) = 4 + Len(join(git.git_cmd, " "))

C14_Witness ==
    /\ git.find_root
    /\ Len(calls) = 3
    /\ calls[1].fn = "rev_parse"
    /\ git.git_cmd[1] = "rev-parse"
    /\ Len(git.git_cmd) = 3

\* C15: every operation (main command, modifier, text, options, single,
\* double, done, run, the end of an options borrow) leaves the token list it
\* found as a prefix of the token list it leaves: tokens are only appended.
C15_AppendOnly == [][KeepsTokens]_vars

C15_Witness ==
    /\ Len(calls) = 3
    /\ calls[1].fn = "upstream" /\ calls[2].fn = "branch_name"
    /\ calls[3].fn = "status"
    /\ git.git_cmd = <<"upstream", "main", "status">>

\* C16: options(), single() and double(), and dropping the GitOptions, leave
\* the owner (its tokens and git_cmd_started) as it was; in the options
\* sub-chain the owner's tokens change only in a main-command call or in
\* done(), which appends the serialized options behind the tokens present
\* and leaves git_cmd_started alone.
C16_OptionsAreLocalUntilDone ==
    [][/\ (Called("options") \/ Called("single") \/ Called("double")
           \/ calls' = calls) => git' = git
       /\ git'.git_cmd # git.git_cmd =>
              (Called("done") \/ \E m \in MainCommands : Called(m))
       /\ Called("done") =>
              /\ git'.git_cmd = git.git_cmd \o SerializedGiven
              /\ git'.git_cmd_started = git.git_cmd_started]_vars

C16_Witness ==
    /\ Len(calls) = 5
    /\ calls[1].fn = "rev_parse" /\ calls[2].fn = "options"
    /\ calls[3].fn = "single" /\ calls[4].fn = "double"
    /\ calls[5].fn = "done"
    /\ git.git_cmd = <<"rev-parse", "-a", "--show-toplevel">>

\* C17: repo_name is None on a builder created with find_root = false and
\* Some(name) on one created with find_root = true; no operation after create
\* changes repo_name or find_root, and none runs a repository query again.
C17_RepoNameFixedAtCreate ==
    /\ [](git.find_root <=> is_some(git.repo_name))
    /\ [][/\ git'.repo_name = git.repo_name
           /\ git'.find_root = git.find_root
           /\ query' = query]_vars

C17_Witness ==
    /\ Len(calls) = 3
    /\ calls[1].fn = "text" /\ calls[2].fn = "status" /\ calls[3].fn = "run"
    /\ git.repo_name = Some("myrepo")
    /\ git.git_cmd = <<"hello_myrepo", "status">>

\* C18: git_cmd_started is true exactly when a main-command method is among
\* the calls made since create; a step that is no main-command call (text,
\* modifier, options, single, double, done, run) leaves it as it was, so the
\* first main-command call appends its tokens behind whatever is present.
C18_StartedIffMainCalled ==
    /\ [](git.git_cmd_started <=> MainCalledWithin(calls, Len(calls)))
    /\ [][(\A m \in MainCommands : ~Called(m)) =>
              git'.git_cmd_started = git.git_cmd_started]_vars
    /\ [][\A m \in MainCommands :
              (Called(m) /\ ~git.git_cmd_started) =>
                  /\ git'.git_cmd = git.git_cmd \o FixedTokens(m)
                  /\ git'.git_cmd_started]_vars

C18_Witness ==
    /\ Len(calls) = 3
    /\ calls[1].fn = "url" /\ calls[2].fn = "master"
    /\ calls[3].fn = "status"
    /\ git.git_cmd_started
    /\ git.git_cmd = <<"main", "master", "status">>

\* C19: done() leaves the GitOptions as it was; every done() appends the
\* serialization of everything single() and double() were given since
\* options(), whether or not a done() came in between, so a done() directly
\* after a done() appends the same tokens once more.
C19_DoneKeepsAccumulation ==
    [][Called("done") =>
          /\ opt' = opt
          /\ KeepsTokens
          /\ Appended = SerializedGiven
          /\ (Len(calls) > 0 /\ LastCall.fn = "done") =>
                 /\ Len(git.git_cmd) >= Len(Appended)
                 /\ SubSeq(git.git_cmd, Len(git.git_cmd) - Len(Appended) + 1,
                           Len(git.git_cmd)) = Appended]_vars

C19_Witness ==
    /\ Len(calls) = 5
    /\ calls[1].fn = "options" /\ calls[2].fn = "single"
    /\ calls[3].fn = "done" /\ calls[4].fn = "double"
    /\ calls[5].fn = "done"
    /\ git.git_cmd = <<"-a", "-a", "--show-toplevel">>

====
